---- MODULE Spec2Model ----
(***************************************************************************)
(* Token lifecycle of khni/auth: RefreshTokenService (create / verify /    *)
(* revoke), AccessTokenService.generate and the AuthTokensService          *)
(* orchestrator (generate / refresh / logout), run by concurrent callers   *)
(* on one event loop.  Every await of the source is a suspension point:    *)
(* an action runs the code between two awaits atomically.                  *)
(***************************************************************************)
EXTENDS Integers, Sequences, FiniteSets, TLC

(* ------------------------------ bounds -------------------------------- *)

\* number of opaque tokens the generator hands out in one behaviour
MaxTokens == 2

\* last instant of the clock
MaxTime == 2

\* number of times the module registry is reset in one behaviour
MaxResets == 1

(* --------------------------- configuration ---------------------------- *)

\* refreshTokenExpiresIn, in clock ticks
RefreshTokenExpiresIn == 1

\* accessTokenExpiresIn, in clock ticks
AccessTokenExpiresIn == 2

\* byte length asked of the opaque token generator
TokenByteLength == 40

\* the callers that may have a call in flight at the same time
Procs == {"p1", "p2"}

\* user ids known to the host application
UserIds == {"u1", "u2"}

\* JavaScript null passed where a string is expected
Null == "<null>"

\* a token string the generator never produced
ForgedToken == "forged"

\* what a call of an injected collaborator (the repository, the user lookup) may
\* do: answer, throw a plain Error, or throw an AuthDomainError of its own
Outcomes == {"ok", "Error", "AuthDomainError"}

\* what tokenService.sign may do: answer, or throw a plain Error
SignOutcomes == {"ok", "Error"}

VARIABLES
    now,        \* the clock read by new Date()
    users,      \* ids for which findUniqueUserById resolves to a user
    store,      \* the refresh-token table: token -> record
    issued,     \* how many tokens the generator has produced
    expiresAt,  \* RefreshTokenService.expiresAt, set by the constructor
    builtAt,    \* history: the instant the constructor of the instance ran
    proc,       \* per caller: position, arguments, locals, outcome
    revokedOk,  \* history: tokens for which a revoke (direct or by logout) resolved
    acc,        \* the last call made on AccessTokenService / Jwt, and the tokens held
    reg,        \* the module registry: stored configuration, singletons, log guard
    loc         \* LocalAuthService: the user table and the calls of its callers

vars == <<now, users, store, issued, expiresAt, builtAt, proc, revokedOk, acc, reg, loc>>

(* ------------------------------ errors -------------------------------- *)

Undefined == [undefined |-> TRUE]

NoResult == [kind |-> "none", code |-> "", msg |-> "", cause |-> "", value |-> Undefined]

Ok(v) == [kind |-> "ok", code |-> "", msg |-> "", cause |-> "", value |-> v]

\* new AuthDomainError(code, msg)
AuthDomainError(code, msg) ==
    [kind |-> "AuthDomainError", code |-> code, msg |-> msg, cause |-> "", value |-> Undefined]

\* new AuthUnexpectedError(code, cause): the cause names the class and the message
\* of the error it wraps
AuthUnexpectedError(code, cause) ==
    [kind |-> "AuthUnexpectedError", code |-> code, msg |-> code,
     cause |-> cause.kind \o ": " \o cause.msg, value |-> Undefined]

\* a plain Error thrown by a collaborator
PlainError(msg) == [kind |-> "Error", code |-> "", msg |-> msg, cause |-> "", value |-> Undefined]

\* the error collaborator name throws under outcome o
Thrown(o, name) ==
    IF o = "AuthDomainError"
    THEN AuthDomainError("REFRESH_TOKEN_INVALID", name)
    ELSE PlainError(name)

\* variant: a handler that rethrows whatever it caught
handleAuthErrorRethrowing(error, code) == error

\* RefreshTokenService.handleAuthError: domain errors pass, the rest is wrapped
handleAuthError(error, code) ==
    IF error.kind = "AuthDomainError" THEN error ELSE AuthUnexpectedError(code, error)

\* the catch block of RefreshTokenService.verify
VerifyCatch(error) == handleAuthError(error, "REFRESHTOKEN_VERIFY_FAILED")

\* variant: create letting the repository's error through
CreateCatchRethrowing(error) == error

\* the catch block of RefreshTokenService.create: it wraps whatever it caught
CreateCatch(error) == AuthUnexpectedError("REFRESHTOKEN_CREATE_FAILED", error)

\* variant: revoke letting the repository's error through
RevokeCatchRethrowing(error) == error

\* the catch block of RefreshTokenService.revoke: it wraps whatever it caught
RevokeCatch(error) == AuthUnexpectedError("REFRESHTOKEN_REVOKE_FAILED", error)

(* ----------------------------- collaborators -------------------------- *)

\* generateExpiredDate(timeString): the instant timeString after t
generateExpiredDate(t, duration) == t + duration

\* variant: a generator without entropy, every call returns the same string
generateBase64UrlTokenConstant(n, byteLength) == "tok1"

\* crypto.generateBase64UrlToken(byteLength): 40 random bytes, so a value
\* that no earlier call returned; n is the number of tokens produced so far
generateBase64UrlToken(n, byteLength) == "tok" \o ToString(n + 1)

\* refreshTokenRepository.findUnique({where: {token}}): the record or null
findUnique(s, token) ==
    IF token \in DOMAIN s THEN {s[token]} ELSE {}

\* refreshTokenRepository.create({data}): a new row, revokedAt defaults to null
RepositoryCreate(s, data) ==
    (data.token :> [token |-> data.token, userId |-> data.userId,
                    expiresAt |-> data.expiresAt, revokedAt |-> {}]) @@ s

\* refreshTokenRepository.update({where: {token}, data}): the row with data applied
RepositoryUpdate(s, token, data) ==
    [s EXCEPT ![token] = [@ EXCEPT !.revokedAt = data.revokedAt]]

\* findUniqueUserById({where: {id}}): the user or null
findUniqueUserById(us, id) == IF id \in us THEN {id} ELSE {}

(* ------------------------------ Jwt codec ----------------------------- *)

\* config.jwtSecret, and the secret of somebody else
JwtSecret == "secret"

OtherSecret == "other secret"

\* the duration string `${n}s`
DurationString(n) == ToString(n) \o "s"

\* values passed as options.expiresIn: a duration string, a number, or nothing
ExpiresInString(text) == [type |-> "string", text |-> text, n |-> 0]

ExpiresInNumber(n) == [type |-> "number", text |-> "", n |-> n]

NoExpiresIn == [type |-> "undefined", text |-> "", n |-> 0]

\* JavaScript truthiness of options?.expiresIn
TruthyExpiresIn(e) ==
    \/ e.type = "string" /\ e.text # ""
    \/ e.type = "number" /\ e.n # 0

\* jsonwebtoken's timespan: a number counts seconds, a string is parsed
Timespan(e) ==
    IF e.type = "number" THEN e.n
    ELSE CHOOSE n \in 0..(MaxTime + 1) : DurationString(n) = e.text

\* a payload handed to sign: the userId and, possibly, temporal claims of its own
Payload(userId, iat, exp) == [userId |-> userId, iat |-> iat, exp |-> exp]

\* a signed token string: what it encodes and the secret it was signed with
JwtToken(payload, secret) ==
    [kind |-> "jwt", userId |-> payload.userId, iat |-> payload.iat, exp |-> payload.exp,
     sig |-> secret]

\* strings that are no signed token, and the absent values
GarbageToken == [kind |-> "garbage", userId |-> "", iat |-> {}, exp |-> {}, sig |-> ""]

EmptyToken == [kind |-> "empty", userId |-> "", iat |-> {}, exp |-> {}, sig |-> ""]

NullToken == [kind |-> "null", userId |-> "", iat |-> {}, exp |-> {}, sig |-> ""]

UndefinedToken == [kind |-> "undefined", userId |-> "", iat |-> {}, exp |-> {}, sig |-> ""]

\* the token with its signature replaced
Tampered(token) == [token EXCEPT !.sig = OtherSecret]

TokenExpiredError == [kind |-> "TokenExpiredError", code |-> "", msg |-> "jwt expired",
                      cause |-> "", value |-> Undefined]

JsonWebTokenError(msg) == [kind |-> "JsonWebTokenError", code |-> "", msg |-> msg,
                           cause |-> "", value |-> Undefined]

\* jsonwebtoken.sign(payload, secret, options) at instant t
JwtLibSign(payload, secret, options, t) ==
    IF options.type # "undefined" /\ payload.exp # {}
    THEN PlainError("Bad \"options.expiresIn\" option the payload already has an \"exp\" property.")
    ELSE LET iat == IF payload.iat # {} THEN payload.iat ELSE {t}
             start == CHOOSE i \in iat : TRUE
             exp == IF options.type # "undefined" THEN {start + Timespan(options)}
                    ELSE payload.exp
         IN  Ok(JwtToken(Payload(payload.userId, iat, exp), secret))

\* jsonwebtoken.verify(token, secret) at instant t: structure, signature, expiry
JwtLibVerify(token, secret, t) ==
    IF token.kind # "jwt" THEN JsonWebTokenError("jwt malformed")
    ELSE IF token.sig # secret THEN JsonWebTokenError("invalid signature")
    ELSE IF \E e \in token.exp : t >= e THEN TokenExpiredError
    ELSE Ok(Payload(token.userId, token.iat, token.exp))

\* variant: the payload copied without its claims
CleanPayloadDroppingClaims(payload, options) == Payload("", {}, {})

\* Jwt.sign: exp and iat are removed from the payload when expiresIn is given
CleanPayload(payload, options) ==
    IF TruthyExpiresIn(options) THEN Payload(payload.userId, {}, {}) ELSE payload

\* the guard of Jwt.sign: options?.expiresIn && typeof options.expiresIn === "number"
NumericExpiresIn(options) == TruthyExpiresIn(options) /\ options.type = "number"

ExpiresInMsg == "expiresIn should be a string like '10m' or '1h'."

\* Jwt.sign(payload, options) at instant t
JwtSign(payload, options, secret, t) ==
    IF NumericExpiresIn(options) THEN PlainError(ExpiresInMsg)
    ELSE JwtLibSign(CleanPayload(payload, options), secret, options, t)

\* Jwt.verify(token) at instant t: whatever jsonwebtoken throws is thrown again
JwtVerify(token, secret, t) == JwtLibVerify(token, secret, t)

(* -------------------------- AccessTokenService ------------------------ *)

\* AccessTokenService.generate: tokenService.sign({userId}, {expiresIn})
AccessTokenGenerate(userId, t) ==
    JwtSign(Payload(userId, {}, {}),
            ExpiresInString(DurationString(AccessTokenExpiresIn)), JwtSecret, t)

\* variant: the guard written as token === null
FalsyTokenOnlyNull(token) == token.kind = "null"

\* JavaScript !token for a token argument
FalsyToken(token) == token.kind \in {"empty", "null", "undefined"}

\* variant: verify reporting every codec failure as an expired token
MapCodecErrorAlwaysExpired(error) == AuthDomainError("EXPIRED_ACCESS_TOKEN", "EXPIRED_ACCESS_TOKEN")

\* variant: verify throwing what the codec threw, the expiry included
MapCodecErrorRethrowing(error) == error

\* the catch block of AccessTokenService.verify
MapCodecError(error) ==
    IF error.kind = "TokenExpiredError"
    THEN AuthDomainError("EXPIRED_ACCESS_TOKEN", "EXPIRED_ACCESS_TOKEN")
    ELSE error

\* variant: verify that accepts a token only while its user is known to the host
AccessTokenVerifyCheckingUser(token, t) ==
    IF FalsyToken(token)
    THEN [calls |-> << >>, raised |-> NoResult,
          result |-> AuthDomainError("MISSING_ACCESS_TOKEN", "MISSING_ACCESS_TOKEN")]
    ELSE LET r == JwtVerify(token, JwtSecret, t) IN
         [calls |-> << <<"tokenService.verify", token>> >>,
          raised |-> IF r.kind = "ok" THEN NoResult ELSE r,
          result |-> IF r.kind # "ok" THEN MapCodecError(r)
                     ELSE IF r.value.userId \in users THEN r
                     ELSE AuthDomainError("EXPIRED_ACCESS_TOKEN", "EXPIRED_ACCESS_TOKEN")]

\* AccessTokenService.verify(token) at instant t: the codec is asked only for a
\* token that is not falsy
AccessTokenVerify(token, t) ==
    IF FalsyToken(token)
    THEN [calls |-> << >>, raised |-> NoResult,
          result |-> AuthDomainError("MISSING_ACCESS_TOKEN", "MISSING_ACCESS_TOKEN")]
    ELSE LET r == JwtVerify(token, JwtSecret, t) IN
         [calls |-> << <<"tokenService.verify", token>> >>,
          raised |-> IF r.kind = "ok" THEN NoResult ELSE r,
          result |-> IF r.kind = "ok" THEN r ELSE MapCodecError(r)]

(* ------------------------------ predicates ---------------------------- *)

\* variant: the guard written as token === "", which lets null through
FalsyOnlyEmptyString(v) == v = ""

\* JavaScript !token for a string-or-null argument
Falsy(v) == v = "" \/ v = Null

\* variant: the rejection test without its revokedAt disjunct
RecordRejectedIgnoringRevocation(found, t) ==
    \/ found = {}
    \/ \E r \in found : r.expiresAt < t

\* variant: the rejection test without its expiresAt disjunct
RecordRejectedIgnoringExpiry(found, t) ==
    \/ found = {}
    \/ \E r \in found : r.revokedAt # {}

\* the rejection test of RefreshTokenService.verify, evaluated at instant t
RecordRejected(found, t) ==
    \/ found = {}
    \/ \E r \in found : r.expiresAt < t \/ r.revokedAt # {}

\* which of the rejection conditions held for the record examined at instant t
Cause(found, t) ==
    IF found = {} THEN "no record"
    ELSE LET r == CHOOSE x \in found : TRUE IN
         IF r.expiresAt < t /\ r.revokedAt # {} THEN "expired and revoked"
         ELSE IF r.expiresAt < t THEN "expired"
         ELSE IF r.revokedAt # {} THEN "revoked"
         ELSE "none"

InvalidMsg == "refreshToken is not exist or expired"

NoUserMsg(userId) == "User is not exist while verifying RefreshToken | userId: " \o userId

\* variant: a rejection whose message names the revocation
RejectionErrorNamingRevocation(found, t) ==
    IF Cause(found, t) = "revoked"
    THEN AuthDomainError("REFRESH_TOKEN_INVALID", "refreshToken is revoked")
    ELSE AuthDomainError("REFRESH_TOKEN_INVALID", InvalidMsg)

\* the error verify throws when the rejection test holds for the record found at t
RejectionError(found, t) == AuthDomainError("REFRESH_TOKEN_INVALID", InvalidMsg)

\* variant: verify without the !user guard
UserMissingIgnored(user) == FALSE

\* the !user guard of verify
UserMissing(user) == user = {}

\* variant: revoke writing revokedAt: null
RevokeDataNull(t) == [revokedAt |-> {}]

\* the data object of RefreshTokenService.revoke, built at instant t
RevokeData(t) == [revokedAt |-> {t}]

\* variant: create computing the expiry when the record is written
CreateDataExpiringPerCall(token, exp, userId) ==
    [token |-> token, expiresAt |-> generateExpiredDate(now, RefreshTokenExpiresIn),
     userId |-> userId]

\* the data object of RefreshTokenService.create
CreateData(token, exp, userId) == [token |-> token, expiresAt |-> exp, userId |-> userId]

\* variant: revoke updating every record of the token's user
RevokedForUser(s, token, t) ==
    [x \in DOMAIN s |-> IF s[x].userId = s[token].userId
                        THEN [s[x] EXCEPT !.revokedAt = RevokeData(t).revokedAt]
                        ELSE s[x]]

\* variant: revoke that also moves expiresAt of the record to the instant of revocation
RevokedExpiringNow(s, token, t) ==
    [s EXCEPT ![token] = [@ EXCEPT !.revokedAt = RevokeData(t).revokedAt, !.expiresAt = t]]

\* variant: revoke that also removes the other records that are past their expiry
RevokedPurgingExpired(s, token, t) ==
    LET kept == {x \in DOMAIN s : x = token \/ s[x].expiresAt >= t} IN
    [x \in kept |-> IF x = token THEN [s[x] EXCEPT !.revokedAt = RevokeData(t).revokedAt]
                    ELSE s[x]]

\* the table after the update revoke asks for: where {token}, data built at instant t
Revoked(s, token, t) == RepositoryUpdate(s, token, RevokeData(t))

\* the pair AuthTokensService.generate returns
TokenPair(record, accessToken) == [refreshToken |-> record.token, accessToken |-> accessToken]

(* ------------------------------- frames ------------------------------- *)

InFlight(f) == f.pc \notin {"idle", "done"}

IdleFrame ==
    [pc |-> "idle", op |-> "none", arg |-> "", user |-> "", rec |-> {}, tok |-> "",
     stamp |-> 0,
     calls |-> << >>, result |-> NoResult, threw |-> "", raised |-> NoResult,
     checkedAt |-> {}, usr |-> {}, seen |-> {},
     afterRevoke |-> FALSE, afterLogout |-> FALSE, afterRefresh |-> FALSE, minted |-> "",
     validAtCall |-> FALSE, issuedAt |-> {},
     overlap |-> FALSE, fresh |-> FALSE]

\* the record a token names can be redeemed at this instant
Redeemable(token) ==
    /\ token \in DOMAIN store
    /\ store[token].revokedAt = {}
    /\ store[token].expiresAt >= now
    /\ store[token].userId \in users

\* the call p made last was operation o with argument a, and it resolved
Before(p, o, a) ==
    /\ proc[p].pc = "done" /\ proc[p].op = o /\ proc[p].arg = a
    /\ proc[p].result.kind = "ok"

\* the frame of caller p at the moment it calls operation o with argument a
Enter(p, o, a) ==
    [IdleFrame EXCEPT !.op = o, !.arg = a,
                      !.afterRevoke = (a \in revokedOk),
                      !.afterLogout = Before(p, "logout", a),
                      !.afterRefresh = Before(p, "refresh", a),
                      !.minted = IF Before(p, "refresh", a)
                                 THEN proc[p].result.value.refreshToken ELSE "",
                      !.validAtCall = Redeemable(a),
                      !.overlap = (\E q \in Procs \ {p} : InFlight(proc[q]))]

\* p's new frame is f; callers already in flight now overlap with p
Install(p, f) ==
    proc' = [q \in Procs |->
                IF q = p THEN f
                ELSE IF InFlight(proc[q]) THEN [proc[q] EXCEPT !.overlap = TRUE]
                ELSE proc[q]]

Update(p, f) == proc' = [proc EXCEPT ![p] = f]

\* collaborator name threw error while the call of frame f awaited it
Threw(f, name, error) == [f EXCEPT !.threw = name, !.raised = error]

Log(f, name, a) == [f EXCEPT !.calls = Append(@, <<name, a>>)]

\* the call of frame f settles with res; the locals of the callees are gone, a
\* direct verify keeps the record it examined, the instant of the examination and
\* the user it looked up, a direct create keeps the instant it was called
Finish(f, res) ==
    IF f.op = "verify"
    THEN [f EXCEPT !.pc = "done", !.result = res]
    ELSE [f EXCEPT !.pc = "done", !.result = res,
                   !.stamp = IF f.op = "create" THEN @ ELSE 0,
                   !.rec = {}, !.checkedAt = {}, !.usr = {}]

TokenArgs == DOMAIN store \cup {"", Null, ForgedToken}

(* ------------------- RefreshTokenService: synchronous heads ----------- *)

\* create(userId), called at this instant, up to its await: draw the token, call
\* repository.create
CreateHead(f, userId) ==
    LET token == generateBase64UrlToken(issued, TokenByteLength) IN
    Log(Log([f EXCEPT !.pc = "create", !.tok = token, !.user = userId, !.stamp = now],
            "crypto.generateBase64UrlToken", ToString(TokenByteLength)),
        "repository.create", token)

\* verify({token}) up to its await: call repository.findUnique
VerifyHead(f, token) ==
    Log([f EXCEPT !.pc = "verify_find"], "repository.findUnique", token)

\* revoke({token}) up to its await: build data with new Date(), call repository.update
RevokeHead(f, token) ==
    Log([f EXCEPT !.pc = "revoke", !.stamp = now], "repository.update", token)

\* refreshes in flight that have not drawn their new token yet
Pending == Cardinality({q \in Procs : proc[q].pc \in {"verify_find", "verify_user"}
                                       /\ proc[q].op = "refresh"})

CanDraw == issued + Pending < MaxTokens

(* ------------------- AuthTokensService: synchronous heads ------------- *)

\* variant: generate signing the access token before it creates the refresh record
GenerateHeadAccessFirst(f, userId) ==
    CreateHead(Log(Log(f, "accessTokenService.generate", userId),
                   "refreshTokenService.create", userId), userId)

\* generate(userId) up to its await: call refreshTokenService.create
GenerateHead(f, userId) ==
    CreateHead(Log(f, "refreshTokenService.create", userId), userId)

\* refresh(token) up to its await: the falsy guard, then refreshTokenService.verify
RefreshHead(f, token) ==
    IF Falsy(token)
    THEN Finish(f, AuthDomainError("REFRESH_TOKEN_INVALID", "REFRESH_TOKEN_INVALID"))
    ELSE VerifyHead(Log(f, "refreshTokenService.verify", token), token)

\* variant: logout with the falsy guard of refresh, returning early
LogoutHeadGuarded(f, token) ==
    IF Falsy(token)
    THEN Finish(f, Ok(Undefined))
    ELSE RevokeHead(Log(f, "refreshTokenService.revoke", token), token)

\* logout(token) up to its await: call refreshTokenService.revoke
LogoutHead(f, token) ==
    RevokeHead(Log(f, "refreshTokenService.revoke", token), token)

(* ------------------------------- calls -------------------------------- *)

CallCreate(p, userId) ==
    /\ ~InFlight(proc[p])
    /\ CanDraw
    /\ Install(p, CreateHead(Enter(p, "create", userId), userId))
    /\ issued' = issued + 1
    /\ UNCHANGED <<now, users, store, expiresAt, builtAt, acc, reg, revokedOk, loc>>

CallVerify(p, token) ==
    /\ ~InFlight(proc[p])
    /\ Install(p, VerifyHead(Enter(p, "verify", token), token))
    /\ UNCHANGED <<now, users, store, issued, expiresAt, builtAt, acc, reg, revokedOk, loc>>

\* the rejections, each with its cause and its error, that caller p has observed
\* in the verify calls it made in a row up to now
SeenBy(p) ==
    IF proc[p].pc = "done" /\ proc[p].op = "verify" THEN proc[p].seen ELSE {}

\* verify called by a caller that keeps track of the rejections it observes
CallVerifyTracking(p, token) ==
    /\ ~InFlight(proc[p])
    /\ Install(p, VerifyHead([Enter(p, "verify", token) EXCEPT !.seen = SeenBy(p)], token))
    /\ UNCHANGED <<now, users, store, issued, expiresAt, builtAt, acc, reg, revokedOk, loc>>

CallRevoke(p, token) ==
    /\ ~InFlight(proc[p])
    /\ Install(p, RevokeHead(Enter(p, "revoke", token), token))
    /\ UNCHANGED <<now, users, store, issued, expiresAt, builtAt, acc, reg, revokedOk, loc>>

CallGenerate(p, userId) ==
    /\ ~InFlight(proc[p])
    /\ CanDraw
    /\ Install(p, GenerateHead(Enter(p, "generate", userId), userId))
    /\ issued' = issued + 1
    /\ UNCHANGED <<now, users, store, expiresAt, builtAt, acc, reg, revokedOk, loc>>

CallRefresh(p, token) ==
    /\ ~InFlight(proc[p])
    /\ Falsy(token) \/ CanDraw
    /\ Install(p, RefreshHead(Enter(p, "refresh", token), token))
    /\ UNCHANGED <<now, users, store, issued, expiresAt, builtAt, acc, reg, revokedOk, loc>>

\* the pair the last call of p resolved with was returned at this instant: its
\* access token was signed now
JustIssued(p) ==
    /\ proc[p].pc = "done" /\ proc[p].op = "generate"
    /\ proc[p].result.kind = "ok"
    /\ proc[p].result.value.accessToken.iat = {now}

\* refresh called with the refresh token generate has just returned to p; the
\* frame remembers the instant
CallRefreshIssued(p) ==
    /\ JustIssued(p)
    /\ CanDraw
    /\ LET token == proc[p].result.value.refreshToken IN
       Install(p, RefreshHead([Enter(p, "refresh", token) EXCEPT !.issuedAt = {now}], token))
    /\ UNCHANGED <<now, users, store, issued, expiresAt, builtAt, acc, reg, revokedOk, loc>>

CallLogout(p, token) ==
    /\ ~InFlight(proc[p])
    /\ Install(p, LogoutHead(Enter(p, "logout", token), token))
    /\ UNCHANGED <<now, users, store, issued, expiresAt, builtAt, acc, reg, revokedOk, loc>>

(* ---------------------------- continuations --------------------------- *)

\* variant: refresh handing the token, not the userId, to generate
RefreshTailPassingToken(f, userId) ==
    IF Falsy(userId)
    THEN Finish(f, AuthDomainError("REFRESH_TOKEN_INVALID", "REFRESH_TOKEN_INVALID"))
    ELSE GenerateHead(f, f.arg)

\* refresh after verify resolved with {userId}: the !userId guard, then generate
RefreshTail(f, userId) ==
    IF Falsy(userId)
    THEN Finish(f, AuthDomainError("REFRESH_TOKEN_INVALID", "REFRESH_TOKEN_INVALID"))
    ELSE GenerateHead(f, userId)

\* verify resolved with {userId}: the direct caller is done, refresh goes on
VerifyResolved(f, userId) ==
    IF f.op = "verify" THEN Finish(f, Ok([userId |-> userId])) ELSE RefreshTail(f, userId)

\* repository.findUnique answers verify: the rejection test, then the user lookup
FindUniqueReturns(p) ==
    /\ proc[p].pc = "verify_find"
    /\ \E o \in Outcomes :
         LET f == proc[p]
             found == findUnique(store, f.arg)
             g == [f EXCEPT !.rec = found, !.checkedAt = {now}]
         IN  Update(p,
               IF o # "ok"
               THEN Finish(Threw(f, "repository.findUnique", Thrown(o, "findUnique")),
                           VerifyCatch(Thrown(o, "findUnique")))
               ELSE IF RecordRejected(found, now)
               THEN Finish([g EXCEPT !.seen = @ \cup {<<Cause(found, now),
                                                        VerifyCatch(RejectionError(found, now))>>}],
                           VerifyCatch(RejectionError(found, now)))
               ELSE Log([g EXCEPT !.pc = "verify_user"], "findUniqueUserById",
                        (CHOOSE r \in found : TRUE).userId))
    /\ UNCHANGED <<now, users, store, issued, expiresAt, builtAt, acc, reg, revokedOk, loc>>

\* variant: a refresh that revokes the token it redeemed before it generates the new pair
FindUserReturnsRevokingOld(p) ==
    /\ proc[p].pc = "verify_user"
    /\ \E o \in Outcomes :
         LET f == proc[p]
             r == CHOOSE r \in f.rec : TRUE
             user == findUniqueUserById(users, r.userId)
             h == [f EXCEPT !.usr = user]
             g == IF o # "ok"
                  THEN Finish(Threw(f, "findUniqueUserById", Thrown(o, "findUniqueUserById")),
                              VerifyCatch(Thrown(o, "findUniqueUserById")))
                  ELSE IF UserMissing(user)
                  THEN Finish(h, VerifyCatch(AuthDomainError("REFRESH_TOKEN_INVALID",
                                                             NoUserMsg(r.userId))))
                  ELSE VerifyResolved(h, r.userId)
         IN  /\ Update(p, g)
             /\ issued' = IF g.pc = "create" THEN issued + 1 ELSE issued
             /\ store' = IF g.pc = "create"
                         THEN RepositoryUpdate(store, f.arg, RevokeData(now))
                         ELSE store
    /\ UNCHANGED <<now, users, expiresAt, builtAt, acc, reg, revokedOk, loc>>

\* findUniqueUserById answers verify; a refresh continues into generate
FindUserReturns(p) ==
    /\ proc[p].pc = "verify_user"
    /\ \E o \in Outcomes :
         LET f == proc[p]
             r == CHOOSE r \in f.rec : TRUE
             user == findUniqueUserById(users, r.userId)
             h == [f EXCEPT !.usr = user]
             g == IF o # "ok"
                  THEN Finish(Threw(f, "findUniqueUserById", Thrown(o, "findUniqueUserById")),
                              VerifyCatch(Thrown(o, "findUniqueUserById")))
                  ELSE IF UserMissing(user)
                  THEN Finish(h, VerifyCatch(AuthDomainError("REFRESH_TOKEN_INVALID",
                                                             NoUserMsg(r.userId))))
                  ELSE VerifyResolved(h, r.userId)
         IN  /\ Update(p, g)
             /\ issued' = IF g.pc = "create" THEN issued + 1 ELSE issued
    /\ UNCHANGED <<now, users, store, expiresAt, builtAt, acc, reg, revokedOk, loc>>

\* generate after create resolved with the record: sign the access token, return the pair
GenerateTail(f, record, sign) ==
    LET g == Log(f, "accessTokenService.generate", f.user) IN
    IF sign # "ok"
    THEN Finish(Threw(g, "tokenService.sign", Thrown(sign, "sign")), Thrown(sign, "sign"))
    ELSE Finish(g, Ok(TokenPair(record, AccessTokenGenerate(f.user, now).value)))

\* repository.create answers create; generate and refresh continue with the access token
CreateReturns(p) ==
    /\ proc[p].pc = "create"
    /\ \E o \in Outcomes, sign \in SignOutcomes :
         LET f == proc[p]
             data == CreateData(f.tok, expiresAt, f.user)
             s == RepositoryCreate(store, data)
             g == [f EXCEPT !.fresh = (f.tok \notin DOMAIN store)]
         IN  IF o # "ok"
             THEN /\ Update(p, Finish(Threw(f, "repository.create", Thrown(o, "create")),
                                      CreateCatch(Thrown(o, "create"))))
                  /\ store' = store
             ELSE /\ Update(p, IF f.op = "create"
                               THEN Finish(g, Ok(s[f.tok]))
                               ELSE GenerateTail(g, s[f.tok], sign))
                  /\ store' = s
    /\ UNCHANGED <<now, users, issued, expiresAt, builtAt, acc, reg, revokedOk, loc>>

\* repository.update answers revoke (it throws when no row matches the token);
\* logout resolves with no value
UpdateReturns(p) ==
    /\ proc[p].pc = "revoke"
    /\ \E o \in Outcomes :
         LET f == proc[p]
             present == f.arg \in DOMAIN store
             e == IF o = "ok" THEN Thrown("Error", "update") ELSE Thrown(o, "update")
             s == Revoked(store, f.arg, f.stamp)
         IN  IF o # "ok" \/ ~present
             THEN /\ Update(p, Finish(Threw(f, "repository.update", e), RevokeCatch(e)))
                  /\ UNCHANGED <<store, revokedOk>>
             ELSE /\ Update(p, Finish(f, IF f.op = "logout" THEN Ok(Undefined)
                                         ELSE Ok(s[f.arg])))
                  /\ store' = s
                  /\ revokedOk' = revokedOk \cup {f.arg}
    /\ UNCHANGED <<now, users, issued, expiresAt, builtAt, acc, reg, loc>>

(* ----------------------------- environment ---------------------------- *)

\* time passes
Tick ==
    /\ now < MaxTime
    /\ now' = now + 1
    /\ UNCHANGED <<users, store, issued, expiresAt, builtAt, acc, reg, proc, revokedOk, loc>>

\* the host application removes a user
DeleteUser(u) ==
    /\ u \in users
    /\ users' = users \ {u}
    /\ UNCHANGED <<now, store, issued, expiresAt, builtAt, acc, reg, proc, revokedOk, loc>>

\* the host application builds the service anew: the constructor computes the
\* expiry, the new instance has no call behind it
Construct ==
    /\ \A p \in Procs : ~InFlight(proc[p])
    /\ expiresAt' = generateExpiredDate(now, RefreshTokenExpiresIn)
    /\ builtAt' = now
    /\ proc' = [p \in Procs |-> IdleFrame]
    /\ UNCHANGED <<now, users, store, issued, revokedOk, acc, reg, loc>>

(* ---------------------- calls on AccessTokenService ------------------- *)

IdleAccess ==
    [op |-> "none", user |-> "", token |-> UndefinedToken, opt |-> NoExpiresIn, at |-> 0,
     calls |-> << >>, raised |-> NoResult, result |-> NoResult,
     held |-> {}, generated |-> {}, pairedWith |-> ""]

\* the tokens a caller may present: those it holds, as issued or tampered with,
\* a string that is no token, the empty string, null and undefined
AccessTokenArgs ==
    acc.held \cup {Tampered(t) : t \in acc.held}
             \cup {GarbageToken, EmptyToken, NullToken, UndefinedToken}

\* the values a caller of Jwt.sign may pass as expiresIn
ExpiresInValues ==
    {ExpiresInString(DurationString(1)), ExpiresInString(DurationString(2)),
     ExpiresInNumber(0), ExpiresInNumber(1), NoExpiresIn}

\* the caller keeps the token a call returned
Holding(r) == IF r.kind = "ok" THEN acc.held \cup {r.value} ELSE acc.held

\* accessTokenService.generate(userId), a synchronous call
AccessGenerateCall(userId) ==
    LET r == AccessTokenGenerate(userId, now) IN
    /\ Cardinality(Holding(r)) <= MaxTokens
    /\ acc' = [IdleAccess EXCEPT !.op = "generate", !.user = userId, !.at = now,
                                 !.calls = << <<"tokenService.sign", UndefinedToken>> >>,
                                 !.result = r,
                                 !.held = Holding(r),
                                 !.generated = IF r.kind = "ok"
                                               THEN acc.generated \cup {<<userId, r.value>>}
                                               ELSE acc.generated]
    /\ UNCHANGED <<now, users, store, issued, expiresAt, builtAt, proc, revokedOk, reg, loc>>

\* accessTokenService.verify(token), a synchronous call
AccessVerifyCall(token) ==
    LET v == AccessTokenVerify(token, now) IN
    /\ acc' = [IdleAccess EXCEPT !.op = "verify", !.token = token, !.at = now,
                                 !.calls = v.calls, !.raised = v.raised,
                                 !.result = v.result,
                                 !.held = acc.held, !.generated = acc.generated]
    /\ UNCHANGED <<now, users, store, issued, expiresAt, builtAt, proc, revokedOk, reg, loc>>

\* accessTokenService.verify called with the access token of the pair generate
\* has returned to caller p, who remembers the refresh token it came with
AccessVerifyIssued(p) ==
    /\ proc[p].pc = "done" /\ proc[p].op = "generate" /\ proc[p].result.kind = "ok"
    /\ LET pair == proc[p].result.value
           v == AccessTokenVerify(pair.accessToken, now)
       IN  acc' = [IdleAccess EXCEPT !.op = "verify", !.token = pair.accessToken, !.at = now,
                                     !.calls = v.calls, !.raised = v.raised,
                                     !.result = v.result,
                                     !.held = acc.held, !.generated = acc.generated,
                                     !.pairedWith = pair.refreshToken]
    /\ UNCHANGED <<now, users, store, issued, expiresAt, builtAt, proc, revokedOk, reg, loc>>

\* accessTokenService.verify called again with the access token presented last
AccessVerifyAgain ==
    /\ acc.op = "verify" /\ acc.pairedWith # ""
    /\ LET v == AccessTokenVerify(acc.token, now) IN
       acc' = [acc EXCEPT !.at = now, !.calls = v.calls, !.raised = v.raised,
                          !.result = v.result]
    /\ UNCHANGED <<now, users, store, issued, expiresAt, builtAt, proc, revokedOk, reg, loc>>

\* jwt.sign(payload, {expiresIn}) called directly on the codec
JwtSignCall(payload, options) ==
    LET r == JwtSign(payload, options, JwtSecret, now) IN
    /\ Cardinality(Holding(r)) <= MaxTokens
    /\ acc' = [IdleAccess EXCEPT !.op = "sign", !.user = payload.userId, !.opt = options,
                                 !.at = now, !.result = r,
                                 !.held = Holding(r), !.generated = acc.generated]
    /\ UNCHANGED <<now, users, store, issued, expiresAt, builtAt, proc, revokedOk, reg, loc>>

(* --------------------------- module registry -------------------------- *)

ServiceNames == {"AccessTokenService", "RefreshTokenService", "AuthTokensService"}

\* the configurations the host application may pass to initAuthTokensModule
Configs == {"configA", "configB"}

\* what config.logger.info may do
LogOutcomes == {"ok", "Error"}

InitialRegistry ==
    [config |-> {}, access |-> {}, refresh |-> {}, auth |-> {}, logged |-> {},
     epoch |-> 0, inited |-> {},
     built |-> [n \in ServiceNames |-> 0],
     logs |-> [n \in ServiceNames |-> 0],
     returned |-> [n \in ServiceNames |-> {}],
     earlier |-> [n \in ServiceNames |-> {}],
     last |-> [op |-> "none", threw |-> ""]]

\* authTokensConfig.get() throws while no configuration is stored
ConfigError == PlainError("AuthTokensModule config not set")

\* authTokensConfig.set(config)
ConfigSet(r, config) == [r EXCEPT !.config = {config}]

\* a service object built now for service name: its identity (the objects
\* constructed for one name are told apart by the reset they follow and by their
\* rank among those built since), the configuration it was built from, the
\* instances it is composed of, the expiry its constructor computed
NewInstance(r, name, config, uses, exp) ==
    [id |-> <<name, r.epoch, r.built[name] + 1>>, config |-> config, uses |-> uses,
     expiresAt |-> exp]

\* the outcome of a getter: the registry it leaves and what it returned or threw
Outcome(r, res) == [reg |-> r, result |-> res]

\* the getter of service name returns the cached instance
Returns(r, name, inst) ==
    Outcome([r EXCEPT !.returned[name] = @ \cup {inst.id}], Ok(inst))

\* logOnce(serviceName, config): one entry unless the guard is set; the guard is set
\* after the logger returned
logOnce(r, name, lo) ==
    IF name \in r.logged THEN [reg |-> r, threw |-> FALSE]
    ELSE [reg |-> [r EXCEPT !.logs[name] = @ + 1,
                            !.logged = IF lo = "ok" THEN @ \cup {name} ELSE @],
          threw |-> lo # "ok"]

\* the registry once the service name is built and cached
Built(r, name) == [r EXCEPT !.built[name] = @ + 1]

\* variant: the singleton cached before the configuration is read
getAccessTokenServiceCachingFirst(r, lo, t) ==
    IF r.access # {} THEN Returns(r, "AccessTokenService", CHOOSE i \in r.access : TRUE)
    ELSE LET inst == NewInstance(r, "AccessTokenService", "", {}, {})
             r1 == Built([r EXCEPT !.access = {inst}], "AccessTokenService")
         IN  IF r.config = {} THEN Outcome(r1, ConfigError)
             ELSE Returns(logOnce(r1, "AccessTokenService", lo).reg,
                          "AccessTokenService", inst)

\* getAccessTokenService() at instant t
getAccessTokenService(r, lo, t) ==
    IF r.access # {} THEN Returns(r, "AccessTokenService", CHOOSE i \in r.access : TRUE)
    ELSE IF r.config = {} THEN Outcome(r, ConfigError)
    ELSE LET inst == NewInstance(r, "AccessTokenService", CHOOSE c \in r.config : TRUE,
                                 {}, {})
             r1 == Built([r EXCEPT !.access = {inst}], "AccessTokenService")
             l == logOnce(r1, "AccessTokenService", lo)
         IN  IF l.threw THEN Outcome(l.reg, PlainError("logger.info"))
             ELSE Returns(l.reg, "AccessTokenService", inst)

\* getRefreshTokenService() at instant t: the constructor computes the expiry
getRefreshTokenService(r, lo, t) ==
    IF r.refresh # {} THEN Returns(r, "RefreshTokenService", CHOOSE i \in r.refresh : TRUE)
    ELSE IF r.config = {} THEN Outcome(r, ConfigError)
    ELSE LET inst == NewInstance(r, "RefreshTokenService", CHOOSE c \in r.config : TRUE,
                                 {}, {generateExpiredDate(t, RefreshTokenExpiresIn)})
             r1 == Built([r EXCEPT !.refresh = {inst}], "RefreshTokenService")
             l == logOnce(r1, "RefreshTokenService", lo)
         IN  IF l.threw THEN Outcome(l.reg, PlainError("logger.info"))
             ELSE Returns(l.reg, "RefreshTokenService", inst)

\* variant: the orchestrator composed of a RefreshTokenService of its own, built
\* beside the registry
getAuthTokensServiceBuildingOwn(r, la, lr, lu, t) ==
    IF r.auth # {} THEN Returns(r, "AuthTokensService", CHOOSE i \in r.auth : TRUE)
    ELSE LET a == getAccessTokenService(r, la, t) IN
         IF a.result.kind # "ok" THEN a
         ELSE LET cfg == a.reg.config
                  own == NewInstance(a.reg, "RefreshTokenService",
                                     CHOOSE c \in cfg : TRUE, {},
                                     {generateExpiredDate(t, RefreshTokenExpiresIn)})
                  inst == NewInstance(a.reg, "AuthTokensService", CHOOSE c \in cfg : TRUE,
                                      {a.result.value.id, own.id}, {})
                  r1 == Built([a.reg EXCEPT !.auth = {inst}], "AuthTokensService")
                  l == logOnce(r1, "AuthTokensService", lu)
              IN  IF l.threw THEN Outcome(l.reg, PlainError("logger.info"))
                  ELSE Returns(l.reg, "AuthTokensService", inst)

\* getAuthTokensService() at instant t: both getters, then the orchestrator
getAuthTokensService(r, la, lr, lu, t) ==
    IF r.auth # {} THEN Returns(r, "AuthTokensService", CHOOSE i \in r.auth : TRUE)
    ELSE LET a == getAccessTokenService(r, la, t) IN
         IF a.result.kind # "ok" THEN a
         ELSE LET b == getRefreshTokenService(a.reg, lr, t) IN
              IF b.result.kind # "ok" THEN b
              ELSE LET cfg == b.reg.config
                       inst == NewInstance(b.reg, "AuthTokensService",
                                           IF cfg = {} THEN "" ELSE CHOOSE c \in cfg : TRUE,
                                           {a.result.value.id, b.result.value.id}, {})
                       r1 == Built([b.reg EXCEPT !.auth = {inst}], "AuthTokensService")
                       l == logOnce(r1, "AuthTokensService", lu)
                   IN  IF cfg = {} THEN Outcome(r1, ConfigError)
                       ELSE IF l.threw THEN Outcome(l.reg, PlainError("logger.info"))
                       ELSE Returns(l.reg, "AuthTokensService", inst)

\* the registry after a call op that ended with run: the call is remembered with
\* the message of the error it threw, if any
After(run, op) ==
    [run.reg EXCEPT !.last = [op |-> op,
                              threw |-> IF run.result.kind = "ok" THEN ""
                                        ELSE run.result.msg]]

\* variant: an initialization that discards the singletons built so far
initAuthTokensModuleDroppingSingletons(r, config) ==
    [ConfigSet(r, config) EXCEPT !.access = {}, !.refresh = {}, !.auth = {}]

\* initAuthTokensModule(config)
initAuthTokensModule(r, config) == ConfigSet(r, config)

\* a call of initAuthTokensModule; the registry remembers after which reset the
\* latest one was made
InitModule(config) ==
    /\ reg' = After(Outcome([initAuthTokensModule(reg, config)
                                EXCEPT !.inited = {reg.epoch}], Ok(Undefined)),
                    "initAuthTokensModule")
    /\ UNCHANGED <<now, users, store, issued, expiresAt, builtAt, proc, revokedOk, acc, loc>>

GetAccess ==
    /\ \E lo \in LogOutcomes :
          reg' = After(getAccessTokenService(reg, lo, now), "getAccessTokenService")
    /\ UNCHANGED <<now, users, store, issued, expiresAt, builtAt, proc, revokedOk, acc, loc>>

GetRefresh ==
    /\ \E lo \in LogOutcomes :
          reg' = After(getRefreshTokenService(reg, lo, now), "getRefreshTokenService")
    /\ UNCHANGED <<now, users, store, issued, expiresAt, builtAt, proc, revokedOk, acc, loc>>

GetAuth ==
    /\ \E la \in LogOutcomes, lr \in LogOutcomes, lu \in LogOutcomes :
          reg' = After(getAuthTokensService(reg, la, lr, lu, now), "getAuthTokensService")
    /\ UNCHANGED <<now, users, store, issued, expiresAt, builtAt, proc, revokedOk, acc, loc>>

\* variant: a reset that leaves the cached singletons in place
ResetRegistryKeepingSingletons(r) == [r EXCEPT !.logged = {}]

\* variant: a reset that leaves the one-time-log guard in place
ResetRegistryKeepingLogGuard(r) == [r EXCEPT !.access = {}, !.refresh = {}, !.auth = {}]

\* variant: a reset that also forgets the stored configuration
ResetRegistryClearingConfig(r) ==
    [r EXCEPT !.access = {}, !.refresh = {}, !.auth = {}, !.logged = {}, !.config = {}]

\* __resetAuthTokensModuleForTests(): the three singletons and the log guard
ResetRegistry(r) ==
    [r EXCEPT !.access = {}, !.refresh = {}, !.auth = {}, !.logged = {}]

\* the history kept about a reset: what the getters returned before it, and a new
\* count of what is built and logged
NextEpoch(r) ==
    [r EXCEPT !.epoch = @ + 1,
              !.earlier = [n \in ServiceNames |-> r.earlier[n] \cup r.returned[n]],
              !.returned = [n \in ServiceNames |-> {}],
              !.built = [n \in ServiceNames |-> 0],
              !.logs = [n \in ServiceNames |-> 0]]

Reset ==
    /\ reg.epoch < MaxResets
    /\ reg' = After(Outcome(NextEpoch(ResetRegistry(reg)), Ok(Undefined)),
                    "__resetAuthTokensModuleForTests")
    /\ UNCHANGED <<now, users, store, issued, expiresAt, builtAt, proc, revokedOk, acc, loc>>

(* --------------------------- LocalAuthService ------------------------- *)

\* identifiers callers pass: one of a user with a password, one of a user without
\* (registered through a provider), one not in use
Identifiers == {"local@example.com", "oauth@example.com", "new@example.com"}

Passwords == {"plainPassword123", "wrong-password"}

\* what parseIdentifier may do: return, or throw a plain Error
ParseOutcomes == {"ok", "Error"}

\* parseIdentifier(identifier) when it returns
parseIdentifier(identifier) == [value |-> identifier, type |-> "email"]

\* hasher.hash(text) when it resolves
Hash(text) == "hashed(" \o text \o ")"

\* hasher.compare(text, hash) when it resolves
Compare(text, hash) == Hash(text) = hash

\* UserRepository.findByIdentifier({identifier}): the user, or null (the empty set)
findByIdentifier(accounts, identifier) ==
    LET rows == {a \in accounts : a.identifier = identifier} IN
    IF rows = {} THEN {}
    ELSE {CHOOSE a \in rows : \A b \in rows : a.id <= b.id}

\* UserRepository.create(data): the row added to the table
NewUser(accounts, data) ==
    [id |-> Cardinality(accounts) + 1, identifier |-> data.identifier,
     identifierType |-> data.identifierType, password |-> data.password]

\* the data createUser hands to UserRepository.create
CreateUserData(parsed, hashedPassword) ==
    [identifier |-> parsed.value, identifierType |-> parsed.type, password |-> hashedPassword]

\* LocalAuthService.handleAuthError: domain errors pass, the rest is wrapped
LocalHandleAuthError(error, code) ==
    IF error.kind = "AuthDomainError" THEN error ELSE AuthUnexpectedError(code, error)

\* variant: a user without a password taken for a local one
NotLocalIgnored(user) == FALSE

\* if (!user.password)
NotLocal(user) == Falsy(user.password)

\* the code with which each operation wraps unexpected errors
FailureCode(op) ==
    IF op = "createUser" THEN "AUTH_USER_CREATION_FAILED" ELSE "LOGIN_FAILED"

IdleLocal ==
    [pc |-> "idle", op |-> "none", identifier |-> "", parsed |-> {}, password |-> "",
     found |-> {}, calls |-> << >>, result |-> NoResult, threw |-> "", raised |-> NoResult,
     overlap |-> FALSE]

\* the table holds a user with a password and a user without
InitialLocal ==
    [accounts |-> {[id |-> 1, identifier |-> "local@example.com", identifierType |-> "email",
                    password |-> Hash("plainPassword123")],
                   [id |-> 2, identifier |-> "oauth@example.com", identifierType |-> "email",
                    password |-> Null]},
     frames |-> [p \in Procs |-> IdleLocal]]

LocalInFlight(f) == f.pc \notin {"idle", "done"}

\* caller p starts a call with frame f; calls in flight overlap with it
LocalInstall(p, f) ==
    LET busy == \E q \in Procs \ {p} : LocalInFlight(loc.frames[q]) IN
    [q \in Procs |->
        IF q = p THEN [f EXCEPT !.overlap = busy]
        ELSE IF LocalInFlight(loc.frames[q]) THEN [loc.frames[q] EXCEPT !.overlap = TRUE]
        ELSE loc.frames[q]]

\* the call of frame f awaits collaborator name next
Await(f, pc, name) == [f EXCEPT !.pc = pc, !.calls = Append(@, name)]

\* the call of frame f settles with res
Settle(f, res) == [f EXCEPT !.pc = "done", !.result = res]

\* collaborator name threw error: the catch block of the operation
Caught(f, name, error) ==
    Settle([f EXCEPT !.threw = name, !.raised = error],
           LocalHandleAuthError(error, FailureCode(f.op)))

\* an error thrown inside the try block of the operation itself
ThrowDomain(f, code, msg) ==
    Settle(f, LocalHandleAuthError(AuthDomainError(code, msg), FailureCode(f.op)))

\* createUser({data}) up to its first await: parseIdentifier, then findByIdentifier
CallCreateUser(p, identifier, password) ==
    /\ loc.frames[p].pc = "idle"
    /\ \E o \in ParseOutcomes :
          LET f == [IdleLocal EXCEPT !.op = "createUser", !.identifier = identifier,
                                     !.password = password,
                                     !.calls = << "parseIdentifier" >>]
              g == IF o # "ok"
                   THEN Caught(f, "parseIdentifier", PlainError("Invalid identifier"))
                   ELSE Await([f EXCEPT !.parsed = {parseIdentifier(identifier)}],
                              "find", "UserRepository.findByIdentifier")
          IN  loc' = [loc EXCEPT !.frames = LocalInstall(p, g)]
    /\ UNCHANGED <<now, users, store, issued, expiresAt, builtAt, proc, revokedOk, acc, reg>>

\* verifyPassword({data}) up to its first await: findByIdentifier
CallVerifyPassword(p, identifier, password) ==
    /\ loc.frames[p].pc = "idle"
    /\ LET f == [IdleLocal EXCEPT !.op = "verifyPassword", !.identifier = identifier,
                                  !.password = password]
       IN  loc' = [loc EXCEPT !.frames =
                      LocalInstall(p, Await(f, "find", "UserRepository.findByIdentifier"))]
    /\ UNCHANGED <<now, users, store, issued, expiresAt, builtAt, proc, revokedOk, acc, reg>>

\* the identifier the call of frame f looks up: createUser the parsed one,
\* verifyPassword the one it was given
LookedUp(f) ==
    IF f.op = "createUser" THEN (CHOOSE r \in f.parsed : TRUE).value ELSE f.identifier

\* UserRepository.findByIdentifier answers
FindByIdentifierReturns(p) ==
    /\ loc.frames[p].pc = "find"
    /\ \E o \in Outcomes :
          LET f == loc.frames[p]
              user == findByIdentifier(loc.accounts, LookedUp(f))
              g == [f EXCEPT !.found = user]
              u == CHOOSE x \in user : TRUE
              h == IF o # "ok"
                   THEN Caught(f, "UserRepository.findByIdentifier", Thrown(o, "findByIdentifier"))
                   ELSE IF f.op = "createUser"
                   THEN IF user # {}
                        THEN ThrowDomain(g, "AUTH_USED_IDENTIFIER", f.identifier)
                        ELSE Await(g, "hash", "hasher.hash")
                   ELSE IF user = {}
                        THEN ThrowDomain(g, "INCORRECT_CREDENTIALS", "identifier is not exist")
                        ELSE IF NotLocal(u)
                        THEN ThrowDomain(g, "USER_NOT_LOCAL", "identifier is not local registered")
                        ELSE Await(g, "compare", "hasher.compare")
          IN  loc' = [loc EXCEPT !.frames[p] = h]
    /\ UNCHANGED <<now, users, store, issued, expiresAt, builtAt, proc, revokedOk, acc, reg>>

\* hasher.hash answers createUser, which calls UserRepository.create
HashReturns(p) ==
    /\ loc.frames[p].pc = "hash"
    /\ \E o \in Outcomes :
          LET f == loc.frames[p]
              h == IF o # "ok" THEN Caught(f, "hasher.hash", Thrown(o, "hash"))
                   ELSE Await(f, "create", "UserRepository.create")
          IN  loc' = [loc EXCEPT !.frames[p] = h]
    /\ UNCHANGED <<now, users, store, issued, expiresAt, builtAt, proc, revokedOk, acc, reg>>

\* UserRepository.create answers createUser
UserCreateReturns(p) ==
    /\ loc.frames[p].pc = "create"
    /\ \E o \in Outcomes :
          LET f == loc.frames[p]
              row == NewUser(loc.accounts,
                             CreateUserData(CHOOSE r \in f.parsed : TRUE, Hash(f.password)))
          IN  IF o # "ok"
              THEN loc' = [loc EXCEPT !.frames[p] =
                              Caught(f, "UserRepository.create", Thrown(o, "create"))]
              ELSE loc' = [loc EXCEPT !.frames[p] = Settle(f, Ok(row)),
                                      !.accounts = @ \cup {row}]
    /\ UNCHANGED <<now, users, store, issued, expiresAt, builtAt, proc, revokedOk, acc, reg>>

\* hasher.compare answers verifyPassword
CompareReturns(p) ==
    /\ loc.frames[p].pc = "compare"
    /\ \E o \in Outcomes :
          LET f == loc.frames[p]
              user == CHOOSE x \in f.found : TRUE
              h == IF o # "ok" THEN Caught(f, "hasher.compare", Thrown(o, "compare"))
                   ELSE IF ~Compare(f.password, user.password)
                   THEN ThrowDomain(f, "INCORRECT_CREDENTIALS",
                                    "password for identifier " \o f.identifier \o " is not Match")
                   ELSE Settle(f, Ok(user))
          IN  loc' = [loc EXCEPT !.frames[p] = h]
    /\ UNCHANGED <<now, users, store, issued, expiresAt, builtAt, proc, revokedOk, acc, reg>>

(* ---------------------------- specification --------------------------- *)

Init ==
    /\ now = 0
    /\ builtAt = 0
    /\ acc = IdleAccess
    /\ reg = InitialRegistry
    /\ loc = InitialLocal
    /\ users = UserIds
    /\ store = [t \in {} |-> 0]
    /\ issued = 0
    /\ expiresAt = generateExpiredDate(0, RefreshTokenExpiresIn)
    /\ proc = [p \in Procs |-> IdleFrame]
    /\ revokedOk = {}

\* the operations a caller can start
Call(p) ==
    \/ \E u \in UserIds : CallCreate(p, u)
    \/ \E t \in TokenArgs : CallVerify(p, t)
    \/ \E t \in TokenArgs : CallRevoke(p, t)
    \/ \E u \in UserIds : CallGenerate(p, u)
    \/ \E t \in TokenArgs : CallRefresh(p, t)
    \/ \E t \in TokenArgs : CallLogout(p, t)

\* a collaborator answers and the suspended call of p runs to its next await
Resume(p) ==
    \/ FindUniqueReturns(p)
    \/ FindUserReturns(p)
    \/ CreateReturns(p)
    \/ UpdateReturns(p)

Environment ==
    \/ Tick
    \/ \E u \in UserIds : DeleteUser(u)

\* one caller issuing calls one after the other, each call suspended at its awaits
Caller == "p1"

Next ==
    \/ Call(Caller)
    \/ Resume(Caller)
    \/ Environment

Spec == Init /\ [][Next]_vars

(* ------------------------- concurrent callers ------------------------- *)

\* a refresh token issued to u1 by an earlier generate of this instance
SeedToken == "tok0"

InitConc ==
    /\ now = 0
    /\ builtAt = 0
    /\ acc = IdleAccess
    /\ reg = InitialRegistry
    /\ loc = InitialLocal
    /\ users = {"u1"}
    /\ expiresAt = generateExpiredDate(0, RefreshTokenExpiresIn)
    /\ store = RepositoryCreate([t \in {} |-> 0], CreateData(SeedToken, expiresAt, "u1"))
    /\ issued = 0
    /\ proc = [p \in Procs |-> IdleFrame]
    /\ revokedOk = {}

\* two callers, each making one call, interleaved at every await
NextConc ==
    \/ \E p \in Procs : proc[p].pc = "idle" /\ Call(p)
    \/ \E p \in Procs : Resume(p)
    \/ Environment

SpecConc == InitConc /\ [][NextConc]_vars

(* ------------------- RefreshTokenService used directly --------------- *)

\* one caller of create, verify and revoke, keeping track of what its verify calls
\* in a row reported
NextService ==
    \/ \E u \in UserIds : CallCreate(Caller, u)
    \/ \E t \in TokenArgs : CallVerifyTracking(Caller, t)
    \/ \E t \in TokenArgs : CallRevoke(Caller, t)
    \/ Resume(Caller)
    \/ Tick

SpecService == Init /\ [][NextService]_vars

(* --------------------------- rebuilt instances ------------------------ *)

\* one caller creating tokens while the host application rebuilds the service
NextInstances ==
    \/ Construct
    \/ \E u \in UserIds : CallCreate(Caller, u)
    \/ CreateReturns(Caller)
    \/ Tick

SpecInstances == Init /\ [][NextInstances]_vars

(* ------------------------ a long-lived instance ---------------------- *)

\* one caller of generate who redeems each pair as soon as it has it, on an
\* instance that lives while time passes
NextLifetime ==
    \/ \E u \in UserIds : CallGenerate(Caller, u)
    \/ CallRefreshIssued(Caller)
    \/ FindUniqueReturns(Caller)
    \/ FindUserReturns(Caller)
    \/ CreateReturns(Caller)
    \/ Tick

SpecLifetime == Init /\ [][NextLifetime]_vars

(* ------------------------------ a session ---------------------------- *)

\* one caller generates a pair, presents its access token, logs the refresh token
\* out and presents the access token again, while users are removed and time passes
NextSession ==
    \/ \E u \in UserIds : CallGenerate(Caller, u)
    \/ CreateReturns(Caller)
    \/ acc.pairedWith # "" /\ CallLogout(Caller, acc.pairedWith)
    \/ UpdateReturns(Caller)
    \/ AccessVerifyIssued(Caller)
    \/ AccessVerifyAgain
    \/ \E u \in UserIds : DeleteUser(u)
    \/ Tick

SpecSession == Init /\ [][NextSession]_vars

(* ------------------- AccessTokenService and its codec ----------------- *)

\* a caller of generate, verify and the codec's sign, while time passes
NextAccess ==
    \/ \E u \in UserIds : AccessGenerateCall(u)
    \/ \E t \in AccessTokenArgs : AccessVerifyCall(t)
    \/ \E u \in UserIds, e \in ExpiresInValues :
          \/ JwtSignCall(Payload(u, {}, {}), e)
          \/ JwtSignCall(Payload(u, {0}, {0}), e)
    \/ Tick

SpecAccess == Init /\ [][NextAccess]_vars

(* ---------------------- module bootstrap / registry ------------------- *)

\* the host application initialising the module, asking for services, and a test
\* resetting it
NextModule ==
    \/ \E c \in Configs : InitModule(c)
    \/ GetAccess
    \/ GetRefresh
    \/ GetAuth
    \/ Reset
    \/ Tick

SpecModule == Init /\ [][NextModule]_vars

(* ------------------------- local authentication ---------------------- *)

\* two callers of LocalAuthService, each making one call, interleaved at every await
NextLocal ==
    \/ \E p \in Procs, i \in Identifiers, w \in Passwords : CallCreateUser(p, i, w)
    \/ \E p \in Procs, i \in Identifiers, w \in Passwords : CallVerifyPassword(p, i, w)
    \/ \E p \in Procs : FindByIdentifierReturns(p)
    \/ \E p \in Procs : HashReturns(p)
    \/ \E p \in Procs : UserCreateReturns(p)
    \/ \E p \in Procs : CompareReturns(p)

SpecLocal == Init /\ [][NextLocal]_vars

(* ------------------------------ properties ---------------------------- *)

Done(p, o) == proc[p].pc = "done" /\ proc[p].op = o

Resolved(f) == f.result.kind = "ok"

IsInvalid(res) == res.kind = "AuthDomainError" /\ res.code = "REFRESH_TOKEN_INVALID"

Called(f, name) == \E i \in DOMAIN f.calls : f.calls[i][1] = name

CallsOf(f, name) == {i \in DOMAIN f.calls : f.calls[i][1] = name}

\* the record a finished verify examined, and the instant it examined it
Examined(f) == CHOOSE r \in f.rec : TRUE

ExaminedAt(f) == CHOOSE t \in f.checkedAt : TRUE

\* C1: a verify({token}) started after a revoke({token}) resolved never resolves;
\* it rejects with REFRESH_TOKEN_INVALID whenever the repository answered its lookup,
\* whatever calls ran and however much time passed in between.
RevokedNeverVerifies ==
    \A p \in Procs :
        Done(p, "verify") /\ proc[p].afterRevoke
        => /\ ~Resolved(proc[p])
           /\ proc[p].threw = "" => IsInvalid(proc[p].result)

\* a verify examined, some time after the revoke, a revoked record that is not past
\* its expiresAt and whose user exists, and rejected it
RevokedNeverVerifiesWitness ==
    \E p \in Procs :
        /\ Done(p, "verify") /\ proc[p].afterRevoke
        /\ IsInvalid(proc[p].result)
        /\ proc[p].rec # {}
        /\ Examined(proc[p]).expiresAt >= ExaminedAt(proc[p])
        /\ Examined(proc[p]).userId \in users
        /\ \E at \in Examined(proc[p]).revokedAt : at < ExaminedAt(proc[p])

\* C2: a refresh(t) started after logout(t) (or any revoke of t) resolved is rejected with
\* REFRESH_TOKEN_INVALID (whenever the repository answered), draws no token, creates
\* no refresh-token record and signs no access token.
LoggedOutNeverRefreshes ==
    \A p \in Procs :
        Done(p, "refresh") /\ (proc[p].afterLogout \/ proc[p].afterRevoke)
        => /\ ~Resolved(proc[p])
           /\ proc[p].threw = "" => IsInvalid(proc[p].result)
           /\ proc[p].tok = ""
           /\ ~Called(proc[p], "refreshTokenService.create")
           /\ ~Called(proc[p], "repository.create")
           /\ ~Called(proc[p], "accessTokenService.generate")

\* a refresh of a logged-out token, otherwise redeemable, was rejected
LoggedOutNeverRefreshesWitness ==
    \E p \in Procs :
        /\ Done(p, "refresh") /\ proc[p].afterLogout
        /\ IsInvalid(proc[p].result)
        /\ proc[p].arg \in DOMAIN store
        /\ store[proc[p].arg].expiresAt > now
        /\ store[proc[p].arg].userId \in users

\* C3: verify accepts an examined record whose user exists iff revokedAt is null and
\* expiresAt is strictly later than the instant of the examination.
VerifyAcceptsIffStrictlyUnexpired ==
    \A p \in Procs :
        /\ Done(p, "verify") /\ proc[p].rec # {} /\ proc[p].threw = ""
        /\ Examined(proc[p]).userId \in users
        => (Resolved(proc[p])
              <=> /\ Examined(proc[p]).revokedAt = {}
                  /\ Examined(proc[p]).expiresAt > ExaminedAt(proc[p]))

\* C4: verify of a record whose expiresAt lies before the instant of the examination
\* rejects with REFRESH_TOKEN_INVALID, revoked or not, and never asks for the user.
ExpiredNeverVerifies ==
    \A p \in Procs :
        /\ Done(p, "verify") /\ proc[p].rec # {}
        /\ Examined(proc[p]).expiresAt < ExaminedAt(proc[p])
        => /\ IsInvalid(proc[p].result)
           /\ ~Called(proc[p], "findUniqueUserById")

\* an expired record that was never revoked, and whose user exists, was rejected
ExpiredNeverVerifiesWitness ==
    \E p \in Procs :
        /\ Done(p, "verify") /\ proc[p].rec # {}
        /\ Examined(proc[p]).expiresAt < ExaminedAt(proc[p])
        /\ Examined(proc[p]).revokedAt = {}
        /\ Examined(proc[p]).userId \in users
        /\ IsInvalid(proc[p].result)

\* C5: a resolved refresh(old) leaves old's record with revokedAt null, and a
\* verify(old) after it resolves as long as old is unexpired, was never revoked by a
\* revoke / logout, and its user exists.
RefreshKeepsOldToken ==
    /\ \A p \in Procs :
          Done(p, "refresh") /\ Resolved(proc[p])
          => /\ proc[p].arg \in DOMAIN store
             /\ store[proc[p].arg].revokedAt = {}
    /\ \A p \in Procs :
          /\ Done(p, "verify") /\ proc[p].afterRefresh /\ ~proc[p].afterRevoke
          /\ proc[p].threw = "" /\ proc[p].rec # {}
          /\ Examined(proc[p]).expiresAt >= ExaminedAt(proc[p])
          /\ Examined(proc[p]).userId \in users
          => Resolved(proc[p])

\* a verify of the old token resolved after its refresh, the new token being redeemable too
RefreshKeepsOldTokenWitness ==
    \E p \in Procs :
        /\ Done(p, "verify") /\ proc[p].afterRefresh /\ Resolved(proc[p])
        /\ Redeemable(proc[p].arg)
        /\ Redeemable(proc[p].minted)

\* two refresh calls in flight at the same time for one token
Racing(p, q) ==
    /\ p # q
    /\ Done(p, "refresh") /\ Done(q, "refresh")
    /\ proc[p].arg = proc[q].arg
    /\ proc[p].overlap /\ proc[q].overlap

\* C6: two overlapping refresh calls for a token that was redeemable when each
\* started, and is still unexpired with its user present, both resolve whenever no
\* collaborator throws, whatever the interleaving; each returns its own new token
\* and the token they presented stays unrevoked.
ConcurrentRefreshesBothResolve ==
    \A p, q \in Procs :
        /\ Racing(p, q)
        /\ proc[p].validAtCall /\ proc[q].validAtCall
        /\ proc[p].threw = "" /\ proc[q].threw = ""
        /\ store[proc[p].arg].expiresAt >= now
        /\ store[proc[p].arg].userId \in users
        => /\ Resolved(proc[p]) /\ Resolved(proc[q])
           /\ proc[p].result.value.refreshToken # proc[q].result.value.refreshToken
           /\ proc[p].result.value.refreshToken # proc[p].arg
           /\ proc[p].fresh /\ proc[q].fresh
           /\ store[proc[p].arg].revokedAt = {}

\* both racing refreshes resolved and the presented token is still redeemable
ConcurrentRefreshesBothResolveWitness ==
    \E p, q \in Procs :
        /\ Racing(p, q)
        /\ Resolved(proc[p]) /\ Resolved(proc[q])
        /\ Redeemable(proc[p].arg)
        /\ Redeemable(proc[p].result.value.refreshToken)
        /\ Redeemable(proc[q].result.value.refreshToken)

\* C7: a resolved refresh(old) returns a refresh token that differs from old and was
\* in no record when it was persisted; its record exists and has old's userId.
RefreshReturnsFreshToken ==
    \A p \in Procs :
        Done(p, "refresh") /\ Resolved(proc[p])
        => LET new == proc[p].result.value.refreshToken IN
           /\ new # proc[p].arg
           /\ proc[p].fresh
           /\ new \in DOMAIN store
           /\ proc[p].arg \in DOMAIN store
           /\ store[new].userId = store[proc[p].arg].userId

\* a refresh resolved while tokens of both users were stored
RefreshReturnsFreshTokenWitness ==
    \E p \in Procs :
        /\ Done(p, "refresh") /\ Resolved(proc[p])
        /\ proc[p].result.value.accessToken.userId = store[proc[p].arg].userId
        /\ Cardinality(DOMAIN store) >= 2

\* C8: refresh("") and refresh(null) reject with REFRESH_TOKEN_INVALID and call
\* nothing: no verify, no repository, no user lookup, no token creation.
FalsyRefreshRejectedEarly ==
    \A p \in Procs :
        Done(p, "refresh") /\ proc[p].arg \in {"", Null}
        => /\ IsInvalid(proc[p].result)
           /\ proc[p].calls = << >>
           /\ proc[p].tok = ""

\* refresh(null) was rejected
FalsyRefreshRejectedEarlyWitness ==
    \E p \in Procs :
        Done(p, "refresh") /\ proc[p].arg = Null /\ IsInvalid(proc[p].result)

\* C9: generate calls refreshTokenService.create first and accessTokenService.generate
\* only after it; when create fails, the access token is never asked for and the
\* call rejects with create's error.
GenerateCreatesBeforeSigning ==
    \A p \in Procs :
        Done(p, "generate")
        => /\ proc[p].calls[1] = <<"refreshTokenService.create", proc[p].arg>>
           /\ \A i \in CallsOf(proc[p], "accessTokenService.generate") :
                 \E j \in CallsOf(proc[p], "refreshTokenService.create") : j < i
           /\ proc[p].threw = "repository.create"
              => /\ ~Called(proc[p], "accessTokenService.generate")
                 /\ proc[p].result = AuthUnexpectedError("REFRESHTOKEN_CREATE_FAILED",
                                                         proc[p].raised)

\* a generate whose create failed was rejected
GenerateCreatesBeforeSigningWitness ==
    \E p \in Procs :
        /\ Done(p, "generate") /\ proc[p].threw = "repository.create"
        /\ ~Resolved(proc[p])

\* C10: logout(token) calls refreshTokenService.revoke exactly once, with the token
\* it was given (the empty string included); it resolves with no value, and rejects
\* with the error revoke raised, unwrapped.
LogoutDelegatesToRevoke ==
    \A p \in Procs :
        Done(p, "logout")
        => /\ Cardinality(CallsOf(proc[p], "refreshTokenService.revoke")) = 1
           /\ \A i \in CallsOf(proc[p], "refreshTokenService.revoke") :
                 proc[p].calls[i][2] = proc[p].arg
           /\ Resolved(proc[p]) => proc[p].result.value = Undefined
           /\ ~Resolved(proc[p])
              => proc[p].result = AuthUnexpectedError("REFRESHTOKEN_REVOKE_FAILED",
                                                      proc[p].raised)

\* logout("") reached revoke and rejected with revoke's error
LogoutDelegatesToRevokeWitness ==
    \E p \in Procs :
        /\ Done(p, "logout") /\ proc[p].arg = ""
        /\ Called(proc[p], "refreshTokenService.revoke")
        /\ proc[p].result.code = "REFRESHTOKEN_REVOKE_FAILED"

\* the rejection condition that held for the record a finished verify examined
CauseOf(f) == Cause(f.rec, ExaminedAt(f))

\* a finished verify that got its record lookup answered and rejected on it
RejectedOnRecord(p) ==
    /\ Done(p, "verify") /\ proc[p].checkedAt # {}
    /\ CauseOf(proc[p]) # "none"

\* C11: verify reports every record-level rejection (no record, expiresAt passed,
\* revokedAt set, or both of the latter) with the same error: all the rejections a
\* caller observes over a row of verify calls are one and the same AuthDomainError
\* with code REFRESH_TOKEN_INVALID and one message, whatever their causes.
RejectionCausesIndistinguishable ==
    \A p \in Procs :
        /\ RejectedOnRecord(p) => <<CauseOf(proc[p]), proc[p].result>> \in proc[p].seen
        /\ \A x \in proc[p].seen :
              /\ IsInvalid(x[2])
              /\ \A y \in proc[p].seen : x[2] = y[2]

\* a caller has been rejected once for each of the three causes
RejectionCausesIndistinguishableWitness ==
    \E p \in Procs :
        /\ RejectedOnRecord(p)
        /\ {"no record", "expired", "revoked"} \subseteq {x[1] : x \in proc[p].seen}

\* C12: a verify whose user lookup answered with no user rejects with
\* REFRESH_TOKEN_INVALID, and a verify that resolves returns the userId of the
\* record it examined, for which the lookup returned a user.
UnknownUserNeverVerifies ==
    \A p \in Procs :
        Done(p, "verify")
        => /\ ( /\ Called(proc[p], "findUniqueUserById")
                /\ proc[p].threw = ""
                /\ proc[p].usr = {} )
              => proc[p].result = AuthDomainError("REFRESH_TOKEN_INVALID",
                                                  NoUserMsg(Examined(proc[p]).userId))
           /\ Resolved(proc[p])
              => /\ proc[p].usr = {proc[p].result.value.userId}
                 /\ proc[p].result.value.userId = Examined(proc[p]).userId

\* an unexpired, unrevoked record whose user is gone was rejected
UnknownUserNeverVerifiesWitness ==
    \E p \in Procs :
        /\ Done(p, "verify") /\ proc[p].rec # {} /\ proc[p].threw = ""
        /\ CauseOf(proc[p]) = "none"
        /\ proc[p].usr = {}
        /\ IsInvalid(proc[p].result)

\* C13: when a collaborator of verify (the repository lookup or the user lookup)
\* throws an error that is no AuthDomainError, verify rejects with an
\* AuthUnexpectedError coded REFRESHTOKEN_VERIFY_FAILED whose cause is that error;
\* verify never rejects with the raw error and never resolves without a userId.
VerifyWrapsUnexpectedErrors ==
    \A p \in Procs :
        Done(p, "verify")
        => /\ proc[p].raised.kind = "Error"
              => proc[p].result = AuthUnexpectedError("REFRESHTOKEN_VERIFY_FAILED",
                                                      proc[p].raised)
           /\ proc[p].result.kind \in {"ok", "AuthDomainError", "AuthUnexpectedError"}
           /\ Resolved(proc[p])
              => /\ DOMAIN proc[p].result.value = {"userId"}
                 /\ proc[p].result.value.userId \in UserIds

\* the user lookup threw a plain Error and verify rejected with the wrapped error
VerifyWrapsUnexpectedErrorsWitness ==
    \E p \in Procs :
        /\ Done(p, "verify") /\ proc[p].threw = "findUniqueUserById"
        /\ proc[p].raised.kind = "Error"
        /\ proc[p].result.code = "REFRESHTOKEN_VERIFY_FAILED"
        /\ proc[p].result.cause = "Error: findUniqueUserById"

\* C14: an AuthDomainError thrown by a collaborator of verify, create or revoke
\* reaches the caller as it was thrown, never wrapped into an AuthUnexpectedError.
DomainErrorsPropagateUnwrapped ==
    \A p \in Procs :
        /\ proc[p].pc = "done" /\ proc[p].op \in {"verify", "create", "revoke"}
        /\ proc[p].raised.kind = "AuthDomainError"
        => proc[p].result = proc[p].raised

\* C15: a create whose repository.create threw rejects with an AuthUnexpectedError
\* coded REFRESHTOKEN_CREATE_FAILED whose cause is the error thrown, and the store
\* holds no record for the token it drew; otherwise create resolves with the stored
\* record, which has the userId given and the token generateBase64UrlToken(40) returned.
CreateWrapsFailureOrPersists ==
    \A p \in Procs :
        Done(p, "create")
        => /\ proc[p].calls[1] = <<"crypto.generateBase64UrlToken", ToString(40)>>
           /\ \E n \in 0..(MaxTokens - 1) :
                 proc[p].tok = generateBase64UrlToken(n, 40)
           /\ proc[p].threw = "repository.create"
              => /\ proc[p].result = AuthUnexpectedError("REFRESHTOKEN_CREATE_FAILED",
                                                         proc[p].raised)
                 /\ proc[p].tok \notin DOMAIN store
           /\ proc[p].threw = ""
              => /\ Resolved(proc[p])
                 /\ proc[p].fresh
                 /\ proc[p].tok \in DOMAIN store
                 /\ proc[p].result.value = store[proc[p].tok]
                 /\ proc[p].result.value.userId = proc[p].arg
                 /\ proc[p].result.value.token = proc[p].tok

\* a create failed after another one had persisted a record
CreateWrapsFailureOrPersistsWitness ==
    \E p \in Procs :
        /\ Done(p, "create") /\ proc[p].threw = "repository.create"
        /\ proc[p].result.code = "REFRESHTOKEN_CREATE_FAILED"
        /\ DOMAIN store # {}

\* C16: the step in which a revoke({token}) resolves writes the instant revoke was
\* called into revokedAt of token's record and changes nothing else in the table:
\* every other record, of the same user or minted from token by a refresh, is
\* left as it was and stays redeemable if it was.
RevokeTouchesOnlyItsRecord ==
    [][\A p \in Procs :
          /\ proc[p].pc = "revoke" /\ proc'[p].pc = "done"
          /\ proc'[p].result.kind = "ok"
          => /\ DOMAIN store' = DOMAIN store
             /\ proc[p].arg \in DOMAIN store
             /\ proc[p].stamp <= now
             /\ store'[proc[p].arg] = [store[proc[p].arg] EXCEPT
                                          !.revokedAt = {proc[p].stamp}]
             /\ \A t \in DOMAIN store \ {proc[p].arg} :
                   /\ store'[t] = store[t]
                   /\ Redeemable(t) => Redeemable(t)']_vars

\* a token was revoked after a refresh had minted another one from it, and the
\* minted token, of the same user, is still redeemable
RevokeTouchesOnlyItsRecordWitness ==
    \E p \in Procs :
        /\ Done(p, "revoke") /\ Resolved(proc[p]) /\ proc[p].afterRefresh
        /\ store[proc[p].arg].revokedAt # {}
        /\ proc[p].minted \in DOMAIN store
        /\ store[proc[p].minted].userId = store[proc[p].arg].userId
        /\ Redeemable(proc[p].minted)

\* C17: the step in which a revoke fails (repository.update threw, a missing record
\* included) rejects with an AuthUnexpectedError coded REFRESHTOKEN_REVOKE_FAILED
\* whose cause is the error thrown, and leaves the table as it was.
RevokeFailureLeavesStore ==
    [][\A p \in Procs :
          /\ proc[p].pc = "revoke" /\ proc'[p].pc = "done"
          /\ proc'[p].result.kind # "ok"
          => /\ store' = store
             /\ proc'[p].threw = "repository.update"
             /\ proc'[p].raised.kind \in {"Error", "AuthDomainError"}
             /\ proc'[p].result = AuthUnexpectedError("REFRESHTOKEN_REVOKE_FAILED",
                                                      proc'[p].raised)]_vars

\* a revoke of a token that names no record failed while the table held records
RevokeFailureLeavesStoreWitness ==
    \E p \in Procs :
        /\ Done(p, "revoke") /\ proc[p].arg = ForgedToken
        /\ proc[p].result.code = "REFRESHTOKEN_REVOKE_FAILED"
        /\ proc[p].result.cause = "Error: update"
        /\ DOMAIN store # {}

\* C18: once revokedAt of a record is set, no step clears it or changes its value.
RevokedAtSetOnce ==
    [][\A t \in DOMAIN store :
          store[t].revokedAt # {}
          => /\ t \in DOMAIN store'
             /\ store'[t].revokedAt = store[t].revokedAt]_vars

\* C19: the record a create resolves with expires refreshTokenExpiresIn after the
\* instant that create was called.
ExpiryCountedFromCreation ==
    \A p \in Procs :
        Done(p, "create") /\ Resolved(proc[p])
        => proc[p].result.value.expiresAt
              = generateExpiredDate(proc[p].stamp, RefreshTokenExpiresIn)

\* C20: the expiresAt field of the instance is what its constructor computed,
\* construction time plus refreshTokenExpiresIn, and changes only in a step that
\* builds the instance anew; every record the instance creates carries that value,
\* whenever create is called.
ExpiryFixedAtConstruction ==
    /\ [](/\ expiresAt = generateExpiredDate(builtAt, RefreshTokenExpiresIn)
          /\ \A p \in Procs :
                Done(p, "create") /\ Resolved(proc[p])
                => /\ proc[p].result.value.expiresAt
                         = generateExpiredDate(builtAt, RefreshTokenExpiresIn)
                   /\ store[proc[p].tok].expiresAt = expiresAt)
    /\ [][expiresAt' # expiresAt
             => /\ builtAt' = now /\ builtAt' # builtAt
                /\ store' = store
                /\ \A p \in Procs : proc'[p] = IdleFrame]_vars

\* a rebuilt instance created a record some time after it was built, next to a
\* record of the instance before it that expires at another instant
ExpiryFixedAtConstructionWitness ==
    \E p \in Procs :
        /\ Done(p, "create") /\ Resolved(proc[p])
        /\ builtAt > 0
        /\ proc[p].stamp > builtAt
        /\ \E t \in DOMAIN store : store[t].expiresAt # expiresAt

\* C21: no step of create / verify / revoke / generate / refresh / logout changes
\* token, userId or expiresAt of a record that exists: only revokedAt may change,
\* and a refresh adds a record instead of extending the one it redeemed.
OnlyRevokedAtChanges ==
    [][\A t \in DOMAIN store :
          /\ t \in DOMAIN store'
          /\ store'[t].token = store[t].token
          /\ store'[t].userId = store[t].userId
          /\ store'[t].expiresAt = store[t].expiresAt]_vars

\* a token was refreshed and then logged out: its record still has the expiry and
\* the user it was created with, next to the record the refresh added
OnlyRevokedAtChangesWitness ==
    \E p \in Procs :
        /\ Done(p, "logout") /\ Resolved(proc[p]) /\ proc[p].afterRefresh
        /\ store[proc[p].arg].revokedAt # {}
        /\ store[proc[p].arg].token = proc[p].arg
        /\ store[proc[p].arg].expiresAt = expiresAt
        /\ proc[p].minted \in DOMAIN store
        /\ store[proc[p].minted].userId = store[proc[p].arg].userId

\* C22: no operation calls the repository's delete and no step removes a record:
\* every record that exists, revoked and expired ones included, exists after the step.
RecordsNeverDeleted ==
    /\ [](\A p \in Procs : ~Called(proc[p], "repository.delete"))
    /\ [][DOMAIN store \subseteq DOMAIN store']_vars

\* the table holds a revoked record and an expired one after a later call resolved
RecordsNeverDeletedWitness ==
    /\ Cardinality(DOMAIN store) = MaxTokens
    /\ \E t \in DOMAIN store : store[t].revokedAt # {} /\ store[t].expiresAt < now
    /\ \E t \in DOMAIN store : store[t].revokedAt = {} /\ store[t].expiresAt < now
    /\ \E p \in Procs : Done(p, "logout") /\ Resolved(proc[p])

\* C23: verify of an absent access token (empty string, null, undefined) throws the
\* AuthDomainError MISSING_ACCESS_TOKEN and never calls the codec's verify.
MissingAccessTokenRejected ==
    acc.op = "verify" /\ acc.token \in {EmptyToken, NullToken, UndefinedToken}
    => /\ acc.result = AuthDomainError("MISSING_ACCESS_TOKEN", "MISSING_ACCESS_TOKEN")
       /\ acc.calls = << >>

\* verify(undefined) was rejected while the caller held a token
MissingAccessTokenRejectedWitness ==
    /\ acc.op = "verify" /\ acc.token = UndefinedToken
    /\ acc.result.code = "MISSING_ACCESS_TOKEN"
    /\ acc.held # {}

\* C24: for a token that is not absent, verify asks the codec once; it throws
\* EXPIRED_ACCESS_TOKEN exactly when the codec threw TokenExpiredError, throws any
\* other error of the codec as it is, and otherwise returns what the codec returned.
AccessVerifyMapsOnlyExpiry ==
    acc.op = "verify" /\ acc.token \notin {EmptyToken, NullToken, UndefinedToken}
    => /\ acc.calls = << <<"tokenService.verify", acc.token>> >>
       /\ acc.raised.kind = "TokenExpiredError"
          <=> acc.result = AuthDomainError("EXPIRED_ACCESS_TOKEN", "EXPIRED_ACCESS_TOKEN")
       /\ acc.raised.kind \notin {"none", "TokenExpiredError"} => acc.result = acc.raised
       /\ acc.raised.kind = "none" => acc.result = JwtVerify(acc.token, JwtSecret, acc.at)
       /\ acc.raised.kind = "none" <=> acc.result.kind = "ok"

\* a token with a foreign signature was rejected with the codec's own error
AccessVerifyMapsOnlyExpiryWitness ==
    /\ acc.op = "verify" /\ acc.token.kind = "jwt" /\ acc.token.sig = OtherSecret
    /\ acc.result = JsonWebTokenError("invalid signature")

\* the userId for which AccessTokenService.generate returned the token presented
GeneratedFor(token) == {g[1] : g \in {h \in acc.generated : h[2] = token}}

\* the instant the token was issued
IssuedAt(token) == CHOOSE i \in token.iat : TRUE

\* C25: verify of a token generate(userId) returned, called before
\* accessTokenExpiresIn has elapsed since the generation, returns claims whose userId
\* is that userId.
AccessTokenRoundTrip ==
    \A u \in GeneratedFor(acc.token) :
        acc.op = "verify" /\ acc.at < IssuedAt(acc.token) + AccessTokenExpiresIn
        => /\ acc.result.kind = "ok"
           /\ acc.result.value.userId = u

\* a token generated for u2 was verified some time after its generation
AccessTokenRoundTripWitness ==
    /\ acc.op = "verify" /\ acc.result.kind = "ok"
    /\ "u2" \in GeneratedFor(acc.token)
    /\ acc.at > IssuedAt(acc.token)

\* C26: verify of a generated token, called once accessTokenExpiresIn has elapsed
\* since its generation, throws EXPIRED_ACCESS_TOKEN; no token is accepted at or
\* after its exp; a token with a foreign signature or no structure is rejected
\* with another error than EXPIRED_ACCESS_TOKEN.
ExpiredAccessTokenRejected ==
    acc.op = "verify"
    => /\ ( /\ GeneratedFor(acc.token) # {}
            /\ acc.at >= IssuedAt(acc.token) + AccessTokenExpiresIn )
          => acc.result = AuthDomainError("EXPIRED_ACCESS_TOKEN", "EXPIRED_ACCESS_TOKEN")
       /\ acc.result.kind = "ok" => \A e \in acc.token.exp : acc.at < e
       /\ (acc.token.kind = "garbage" \/ acc.token.sig = OtherSecret)
          => /\ acc.result.kind = "JsonWebTokenError"
             /\ acc.result.code # "EXPIRED_ACCESS_TOKEN"

\* a generated token was rejected as expired at the instant of its exp
ExpiredAccessTokenRejectedWitness ==
    /\ acc.op = "verify" /\ GeneratedFor(acc.token) # {}
    /\ acc.token.exp = {acc.at}
    /\ acc.result.code = "EXPIRED_ACCESS_TOKEN"

\* C27: Jwt.sign called with a number as expiresIn throws the configuration error
\* and returns no token.
NumericExpiresInRejected ==
    acc.op = "sign" /\ acc.opt.type = "number"
    => /\ acc.result = PlainError(ExpiresInMsg)
       /\ acc.result.kind # "ok"

Getters == {"getAccessTokenService", "getRefreshTokenService", "getAuthTokensService"}

\* C28: while no configuration is stored, a getter call throws the configuration
\* error and the registry stays as it was before any call: no singleton cached,
\* nothing built, no log entry, the log guard empty.
UninitializedGettersFail ==
    reg.config = {}
    => /\ reg.access = {} /\ reg.refresh = {} /\ reg.auth = {}
       /\ reg.logged = {}
       /\ \A n \in ServiceNames :
             reg.built[n] = 0 /\ reg.logs[n] = 0 /\ reg.returned[n] = {}
       /\ reg.last.op \in Getters => reg.last.threw = ConfigError.msg

\* getAuthTokensService was called before any initAuthTokensModule and threw
UninitializedGettersFailWitness ==
    /\ reg.config = {}
    /\ reg.last.op = "getAuthTokensService"
    /\ reg.last.threw = ConfigError.msg

\* C29: between two resets at most one instance is built per service and every
\* call of a getter returns that one; initAuthTokensModule builds nothing; what a
\* getter returns after a reset was never returned before that reset.
SingletonPerReset ==
    /\ [](\A n \in ServiceNames :
             /\ reg.built[n] <= 1
             /\ Cardinality(reg.returned[n]) <= 1
             /\ reg.returned[n] \cap reg.earlier[n] = {})
    /\ [][reg'.last.op = "initAuthTokensModule"
             => /\ reg'.built = reg.built
                /\ reg'.access = reg.access /\ reg'.refresh = reg.refresh
                /\ reg'.auth = reg.auth]_vars

\* getAuthTokensService returned an instance before the reset and another after it
SingletonPerResetWitness ==
    /\ reg.epoch > 0
    /\ reg.last.op = "getAuthTokensService" /\ reg.last.threw = ""
    /\ reg.earlier["AuthTokensService"] # {}
    /\ reg.returned["AuthTokensService"] # {}
    /\ reg.built["AuthTokensService"] = 0 \/ reg.built["AuthTokensService"] = 1

\* C30: since the last reset, the logger got one entry for each service that was
\* built, none for a service not built, and never a second one for a name.
OneLogPerMaterialization ==
    \A n \in ServiceNames :
        /\ reg.logs[n] = reg.built[n]
        /\ reg.logs[n] <= 1
        /\ n \in reg.logged => reg.logs[n] = 1

\* after a reset every service was built again and logged again, and a getter was
\* called once more
OneLogPerMaterializationWitness ==
    /\ reg.epoch > 0
    /\ \A n \in ServiceNames :
          reg.logs[n] = 1 /\ reg.earlier[n] # {} /\ reg.returned[n] # {}
    /\ reg.logged = ServiceNames

\* the singletons cached in registry r
Singletons(r) == r.access \cup r.refresh \cup r.auth

ResetOp == "__resetAuthTokensModuleForTests"

\* C31: after getAuthTokensService() returned, the three singletons are cached and
\* the orchestrator is composed of the cached AccessTokenService and
\* RefreshTokenService; a call of getAuthTokensService keeps the ones already built.
OrchestratorComposedOfSingletons ==
    /\ [](/\ reg.last.op = "getAuthTokensService" /\ reg.last.threw = "" => reg.auth # {}
          /\ \A o \in reg.auth :
                /\ reg.access # {} /\ reg.refresh # {}
                /\ o.uses = {i.id : i \in reg.access \cup reg.refresh})
    /\ [][reg'.last.op = "getAuthTokensService"
             => /\ reg.access # {} => reg'.access = reg.access
                /\ reg.refresh # {} => reg'.refresh = reg.refresh]_vars

\* the orchestrator was built after a second initialization and is composed of an
\* AccessTokenService built before it
OrchestratorComposedOfSingletonsWitness ==
    /\ reg.last.op = "getAuthTokensService" /\ reg.last.threw = ""
    /\ \E o \in reg.auth, a \in reg.access :
          /\ a.id \in o.uses
          /\ a.config # o.config

\* C32: a reset empties the three singletons and the log guard and leaves the
\* stored configuration as it is; with a configuration stored, a getter does not
\* throw the configuration error and what it builds is built from that configuration.
ResetKeepsConfiguration ==
    /\ [][reg'.last.op = ResetOp
             => /\ reg'.config = reg.config
                /\ Singletons(reg') = {} /\ reg'.logged = {}]_vars
    /\ [][reg'.last.op \in Getters /\ reg.config # {}
             => /\ reg'.last.threw # ConfigError.msg
                /\ \A i \in Singletons(reg') \ Singletons(reg) : i.config \in reg.config]_vars

\* initialized, reset, and then getRefreshTokenService built a service from the
\* configuration stored before the reset
ResetKeepsConfigurationWitness ==
    /\ reg.inited = {0} /\ reg.epoch = 1
    /\ reg.last.op = "getRefreshTokenService" /\ reg.last.threw = ""
    /\ reg.built["RefreshTokenService"] = 1
    /\ \E i \in reg.refresh : i.config \in reg.config

\* the module was initialized and then reset, with no initialization since
ResetAfterInit == reg.inited # {} /\ \A e \in reg.inited : e < reg.epoch

\* C33, as stated: after an initialization followed by a reset no configuration is
\* stored, and a getter called without a new initialization throws the
\* configuration error.
ResetRestoresUninitialized ==
    ResetAfterInit
    => /\ reg.config = {}
       /\ reg.last.op \in Getters => reg.last.threw = ConfigError.msg

\* C33, amended: after an initialization followed by a reset the singletons are
\* gone when the reset returns but the configuration is still stored, and a getter
\* called without a new initialization does not throw the configuration error.
ResetLeavesModuleConfigured ==
    ResetAfterInit
    => /\ reg.config # {}
       /\ reg.last.op = ResetOp => Singletons(reg) = {}
       /\ reg.last.op \in Getters => reg.last.threw # ConfigError.msg

\* initialized, reset, and getAuthTokensService returned without a new initialization
ResetLeavesModuleConfiguredWitness ==
    /\ ResetAfterInit
    /\ reg.last.op = "getAuthTokensService" /\ reg.last.threw = ""
    /\ reg.auth # {}

\* C39: initAuthTokensModule changes no cached singleton; until the next reset a
\* cached singleton stays the same object with the configuration it was built
\* from; a service is built from the configuration stored at that moment.
InitLeavesSingletons ==
    /\ [][reg'.last.op = "initAuthTokensModule"
             => /\ reg'.access = reg.access /\ reg'.refresh = reg.refresh
                /\ reg'.auth = reg.auth]_vars
    /\ [][reg'.epoch = reg.epoch
             => /\ reg.access # {} => reg'.access = reg.access
                /\ reg.refresh # {} => reg'.refresh = reg.refresh
                /\ reg.auth # {} => reg'.auth = reg.auth]_vars
    /\ [][\A i \in Singletons(reg') \ Singletons(reg) : i.config \in reg'.config]_vars

\* an AccessTokenService built from configA next to a RefreshTokenService built
\* from configB, after the second initialization
InitLeavesSingletonsWitness ==
    /\ reg.config = {"configB"}
    /\ \E a \in reg.access : a.config = "configA"
    /\ \E b \in reg.refresh : b.config = "configB"
    /\ reg.returned["AccessTokenService"] # {}

\* C35: a refresh called with the refresh token of a pair at the instant generate
\* returned it, whose collaborators all answer and which runs within that
\* instant, resolves, however long ago the instance was constructed.
IssuedTokenRedeemable ==
    \A p \in Procs :
        /\ Done(p, "refresh") /\ proc[p].issuedAt = {now}
        /\ proc[p].threw = ""
        => Resolved(proc[p])

\* C36: a refresh never resolves with a pair in a step taken after a logout of the
\* same token resolved, however the awaits of the two calls interleave.
NoRefreshAfterLogoutCompleted ==
    [][\A p \in Procs :
          /\ proc'[p].op = "refresh" /\ proc'[p].pc = "done" /\ proc[p].pc # "done"
          /\ Resolved(proc'[p])
          => \A q \in Procs : ~(Done(q, "logout") /\ Resolved(proc[q])
                                 /\ proc[q].arg = proc[p].arg)]_vars

\* C37: when generate, or the generate step of refresh, fails, the record of the
\* token it drew is not in the store.
GenerateAllOrNothing ==
    \A p \in Procs :
        /\ proc[p].pc = "done" /\ proc[p].op \in {"generate", "refresh"}
        /\ ~Resolved(proc[p]) /\ proc[p].tok # ""
        => proc[p].tok \notin DOMAIN store

\* C38: what verify returned for a token is what it returns for that token at
\* that instant whatever the refresh-token store and the user set hold; the access
\* token of a generated pair verifies before its own expiry, also after the logout
\* of the pair's refresh token and after the user was removed.
AccessVerifyIgnoresStores ==
    acc.op = "verify"
    => /\ acc.result = AccessTokenVerify(acc.token, acc.at).result
       /\ ( /\ acc.pairedWith # ""
            /\ acc.at < IssuedAt(acc.token) + AccessTokenExpiresIn )
          => /\ acc.result.kind = "ok"
             /\ acc.result.value.userId = store[acc.pairedWith].userId

\* the access token of a pair verified after the pair's refresh token was logged
\* out and the user removed
AccessVerifyIgnoresStoresWitness ==
    /\ acc.op = "verify" /\ acc.result.kind = "ok"
    /\ acc.at > IssuedAt(acc.token)
    /\ acc.result.value.userId \notin users
    /\ \E p \in Procs :
          /\ Done(p, "logout") /\ Resolved(proc[p])
          /\ proc[p].arg = acc.pairedWith
          /\ store[acc.pairedWith].revokedAt # {}
          /\ store[acc.pairedWith].revokedAt # {acc.at}

\* the call caller p made on LocalAuthService settled, and it was operation o
LocalDone(p, o) == loc.frames[p].pc = "done" /\ loc.frames[p].op = o

LocalCalled(f, name) == \E i \in DOMAIN f.calls : f.calls[i] = name

\* the user the call of frame f found
FoundUser(f) == CHOOSE u \in f.found : TRUE

\* C34: verifyPassword resolves only with the user found for the identifier, who
\* has a password that hasher.compare matched; without a user it throws
\* INCORRECT_CREDENTIALS and with a user without password USER_NOT_LOCAL, in both
\* cases without calling hasher.compare; a mismatch throws INCORRECT_CREDENTIALS;
\* a collaborator's plain Error leaves as AuthUnexpectedError LOGIN_FAILED.
VerifyPasswordOutcomes ==
    \A p \in Procs :
        LET f == loc.frames[p] IN
        LocalDone(p, "verifyPassword")
        => /\ Resolved(f)
              => /\ f.found # {} /\ f.found \subseteq loc.accounts
                 /\ FoundUser(f).identifier = f.identifier
                 /\ ~Falsy(FoundUser(f).password)
                 /\ LocalCalled(f, "hasher.compare")
                 /\ Compare(f.password, FoundUser(f).password)
                 /\ f.result.value = FoundUser(f)
           /\ f.threw = "" /\ f.found = {}
              => /\ f.result.kind = "AuthDomainError"
                 /\ f.result.code = "INCORRECT_CREDENTIALS"
                 /\ ~LocalCalled(f, "hasher.compare")
           /\ f.found # {} /\ Falsy(FoundUser(f).password)
              => /\ f.result.kind = "AuthDomainError"
                 /\ f.result.code = "USER_NOT_LOCAL"
                 /\ ~LocalCalled(f, "hasher.compare")
           /\ ( /\ f.threw = "" /\ f.found # {} /\ ~Falsy(FoundUser(f).password)
                /\ ~Compare(f.password, FoundUser(f).password) )
              => /\ f.result.kind = "AuthDomainError"
                 /\ f.result.code = "INCORRECT_CREDENTIALS"
           /\ f.threw # "" /\ f.raised.kind # "AuthDomainError"
              => f.result = AuthUnexpectedError("LOGIN_FAILED", f.raised)
           /\ f.threw = "UserRepository.findByIdentifier" => ~LocalCalled(f, "hasher.compare")

\* one caller resolved with the stored user after hasher.compare matched, the
\* other was rejected for a user without password
VerifyPasswordOutcomesWitness ==
    \E p \in Procs, q \in Procs :
        /\ LocalDone(p, "verifyPassword") /\ Resolved(loc.frames[p])
        /\ LocalCalled(loc.frames[p], "hasher.compare")
        /\ LocalDone(q, "verifyPassword")
        /\ loc.frames[q].result.code = "USER_NOT_LOCAL"

\* C40: createUser that finds the identifier in use throws AUTH_USED_IDENTIFIER
\* without hashing or creating; no two users share an identifier; of two
\* overlapping createUser calls for one identifier at most one calls
\* UserRepository.create.
IdentifierCreatedOnce ==
    /\ \A p \in Procs :
          LocalDone(p, "createUser") /\ loc.frames[p].found # {}
          => /\ loc.frames[p].result =
                   AuthDomainError("AUTH_USED_IDENTIFIER", loc.frames[p].identifier)
             /\ ~LocalCalled(loc.frames[p], "hasher.hash")
             /\ ~LocalCalled(loc.frames[p], "UserRepository.create")
    /\ \A a \in loc.accounts, b \in loc.accounts : a.identifier = b.identifier => a = b
    /\ \A p \in Procs, q \in Procs :
          /\ p # q
          /\ loc.frames[p].op = "createUser" /\ loc.frames[q].op = "createUser"
          /\ loc.frames[p].overlap /\ loc.frames[q].overlap
          /\ loc.frames[p].identifier = loc.frames[q].identifier
          => ~( /\ LocalCalled(loc.frames[p], "UserRepository.create")
                /\ LocalCalled(loc.frames[q], "UserRepository.create") )

TypeOK ==
    /\ now \in 0..MaxTime
    /\ users \subseteq UserIds
    /\ issued \in 0..MaxTokens
    /\ builtAt \in 0..MaxTime
    /\ \A p \in Procs : proc[p].pc \in {"idle", "verify_find", "verify_user", "create",
                                        "revoke", "done"}

====
